---- MODULE Spec2Model ----
(***************************************************************************)
(* The HTTP transport of influxdb-cxx (src/src/HTTP.cxx): endpoint         *)
(* parsing, the synchronous request paths, and the asynchronous write      *)
(* pipeline (sendAsync, the pending-response queue, the reaper thread      *)
(* handleAsyncResult and the destructor).                                  *)
(***************************************************************************)
EXTENDS Integers, Sequences, FiniteSets, TLC

\* ------------------------------------------------------------------ bounds
\* number of sendAsync calls explored in one behaviour
MaxWrites == 2
\* longest connection string explored by ParseSpec
MaxUrlLen == 7

\* caller threads of the transport
Callers == {"c1", "c2"}
\* the thread started at HTTP.cxx:95
Reaper == "reaper"
\* value of asyncMtx when no thread holds it
Free == "free"
\* the caller thread and the reaper thread of the second HTTP object
OtherCaller == "otherCaller"
OtherReaper == "otherReaper"

WriteIds == 1..MaxWrites

\* characters of connection strings
Chars == {"/", "?", "d", "b", "="}
\* the connection string the concurrency specifications construct from
DefaultUrl == <<"b", "/", "?", "d", "b", "=", "d">>
UrlsUpTo(n) == UNION {[1..k -> Chars] : k \in 0..n}

\* ------------------------------------------------------------- std::string
\* std::string::npos as the result of find
Npos == -1

\* positions are 0-based as in C++
CharAt(s, i) == s[i + 1]
InRange(s, i) == i >= 0 /\ i < Len(s)

\* std::string::find(char): first position of ch, or npos
FindChar(s, ch) ==
    IF \E i \in 0..(Len(s) - 1) : CharAt(s, i) = ch
    THEN CHOOSE i \in 0..(Len(s) - 1) :
            /\ CharAt(s, i) = ch
            /\ \A j \in 0..(i - 1) : CharAt(s, j) # ch
    ELSE Npos

MatchesAt(s, pat, i) ==
    /\ i + Len(pat) <= Len(s)
    /\ \A k \in 1..Len(pat) : s[i + k] = pat[k]

\* std::string::find(const char*): first position of pat, or npos
FindStr(s, pat) ==
    IF \E i \in 0..Len(s) : MatchesAt(s, pat, i)
    THEN CHOOSE i \in 0..Len(s) :
            /\ MatchesAt(s, pat, i)
            /\ \A j \in 0..(i - 1) : ~MatchesAt(s, pat, j)
    ELSE Npos

\* std::string::substr(pos, n) for pos <= size
Substr(s, pos, n) ==
    SubSeq(s, pos + 1, IF pos + n > Len(s) THEN Len(s) ELSE pos + n)

\* std::string::substr(pos) for pos <= size
SubstrFrom(s, pos) == SubSeq(s, pos + 1, Len(s))

\* ------------------------------------------------------- endpoint parsing
Returned(v) == [exc |-> "none", val |-> v]
Thrown(e) == [exc |-> e, val |-> <<>>]

\* parseUrl, HTTP.cxx:53-66; url.at(i) throws std::out_of_range
\* when i is not a position of url (questionMarkPosition - 1 wraps at 0)
ParseUrl(url) ==
    LET q == FindChar(url, "?") IN
    IF q = Npos THEN Returned(url)
    ELSE IF ~InRange(url, q - 1) THEN Thrown("out_of_range")
    ELSE IF CharAt(url, q - 1) = "/" THEN Returned(Substr(url, 0, q - 1))
    ELSE Returned(Substr(url, 0, q))

\* parseDatabaseName, HTTP.cxx:68-77
ParseDatabaseName(url) ==
    LET p == FindStr(url, <<"?", "d", "b", "=">>) IN
    IF p = Npos THEN Thrown("InfluxDBException")
    ELSE Returned(SubstrFrom(url, p + 4))

\* the mem-initializer list of HTTP::HTTP(url), HTTP.cxx:83:
\* endpointUrl is initialised before databaseName; the first exception
\* leaves the constructor
ParseEndpoint(url) ==
    LET e == ParseUrl(url) IN
    IF e.exc # "none" THEN [exc |-> e.exc, endpointUrl |-> <<>>, databaseName |-> <<>>]
    ELSE LET d == ParseDatabaseName(url) IN
         IF d.exc # "none" THEN [exc |-> d.exc, endpointUrl |-> <<>>, databaseName |-> <<>>]
         ELSE [exc |-> "none", endpointUrl |-> e.val, databaseName |-> d.val]

\* -------------------------------------------------------------- responses
\* cpr::status::is_success
IsSuccess(status) == status >= 200 /\ status < 300

NoException == [exc |-> "none", kind |-> "none", code |-> 0]

\* a checkResponse that looks at the status before the transport error
CheckResponseStatusFirst(resp) ==
    IF ~IsSuccess(resp.status)
    THEN [exc |-> "InfluxDBException", kind |-> "Request failed", code |-> resp.status]
    ELSE IF resp.errorCode # 0
    THEN [exc |-> "InfluxDBException", kind |-> "Request error", code |-> resp.errorCode]
    ELSE NoException

\* checkResponse, HTTP.cxx:40-51: the exception it throws (with the number
\* its message carries), or none; resp.error converts to true when the
\* error code is not OK (0)
CheckResponse(resp) ==
    IF resp.errorCode # 0
    THEN [exc |-> "InfluxDBException", kind |-> "Request error", code |-> resp.errorCode]
    ELSE IF ~IsSuccess(resp.status)
    THEN [exc |-> "InfluxDBException", kind |-> "Request failed", code |-> resp.status]
    ELSE NoException

\* a reaper without the try/catch of HTTP.cxx:157-164
CatchesNothing(e) == FALSE

\* the handler at HTTP.cxx:161: catch(const InfluxDBException&)
Catches(e) == e.exc = "InfluxDBException"

StatusCodes == {0, 199, 200, 299, 300, 500}
ErrorCodes == {0, 28}
\* responses of the blocking calls explored by SyncSpec
Responses == [errorCode : ErrorCodes, status : StatusCodes, text : {"body"}]
\* responses explored by the concurrency specifications
AsyncResponses ==
    { [errorCode |-> 0, status |-> 200, text |-> "body"],
      [errorCode |-> 0, status |-> 500, text |-> "body"],
      [errorCode |-> 28, status |-> 0, text |-> "body"] }

\* ---------------------------------------------------------------- session
Params1(k1, v1) == [k \in {k1} |-> v1]
Params2(k1, v1, k2, v2) == [k \in {k1, k2} |-> IF k = k1 THEN v1 ELSE v2]
NoParams == [k \in {} |-> <<>>]
NoBody == -1

\* the cpr::Session made at HTTP.cxx:85
NewSession == [url |-> <<>>, header |-> {}, params |-> NoParams, body |-> NoBody]

\* texts of queries and commands
Queries == {<<"q">>}
\* the line protocol of the blocking send
SyncPayloads == {0}

\* ------------------------------------------------------------------ state
VARIABLES
    url,                \* the connection string given to the constructor
    endpointUrl,        \* HTTP::endpointUrl
    databaseName,       \* HTTP::databaseName
    ctorExc,            \* the exception that left the constructor, or "none"
    life,               \* lifetime of the transport object
    dtorPc,             \* position of the owner thread in ~HTTP
    processAsync,       \* HTTP::processAsync
    asyncResultHandler, \* HTTP::asyncResultHandler: "none", "joinable", "joined"
    asyncMtx,           \* owner of the global std::mutex asyncMtx
    respQueue,          \* HTTP::respQueue, the write ids of the queued handles
    session,            \* HTTP::session
    net,                \* state of each asynchronous request
    pc,                 \* position of each caller thread
    op,                 \* the operation each caller is in or was last in
    callId,             \* the write id of each caller's sendAsync
    nextId,             \* the next write id
    result,             \* what the last call of each caller returned or threw
    lastResp,           \* the response the last blocking call received
    requests,           \* HTTP requests issued by each caller's last call
    reaperPc,           \* position of the reaper thread in handleAsyncResult
    appended,           \* history: write ids in the order of push_back
    resolved,           \* history: write ids in the order of pop_front
    waited,             \* history: times each write was waited on
    classified,         \* history: times each write was given to checkResponse
    popped,             \* history: times each write was removed
    overtaken,          \* history: a response arrived before an earlier write's
    queuedAtShutdown,   \* history: ids queued when ~HTTP cleared processAsync
    lateResolved,       \* history: ids of queuedAtShutdown waited on afterwards
    seenAtExit,         \* history: ids queued when the reaper read the flag false
    other               \* a second HTTP object of the process

vars == <<url, endpointUrl, databaseName, ctorExc, life, dtorPc, processAsync,
          asyncResultHandler, asyncMtx, respQueue, session, net, pc, op, callId,
          nextId, result, lastResp, requests, reaperPc, appended, resolved,
          waited, classified, popped, overtaken, queuedAtShutdown, lateResolved,
          seenAtExit, other>>

configVars == <<url, endpointUrl, databaseName, ctorExc>>
lifeVars == <<life, dtorPc, processAsync, asyncResultHandler>>
callVars == <<pc, op, callId, nextId, result, lastResp, requests>>
reapHistory == <<resolved, waited, classified, popped>>
stopHistory == <<queuedAtShutdown, lateResolved, seenAtExit>>
\* all of the first HTTP object; asyncMtx is not a member (HTTP.cxx:80)
thisObject == <<configVars, lifeVars, respQueue, session, net, callVars,
                reaperPc, appended, reapHistory, overtaken, stopHistory>>

Range(q) == {q[i] : i \in 1..Len(q)}
NoResult == [exc |-> "none", kind |-> "none", code |-> 0, val |-> "none"]
NoResponse == [errorCode |-> 0, status |-> 0, text |-> "none"]
NetState(st, resp) == [st |-> st, resp |-> resp]
\* history counters stop at 2: more than once is all they tell
Inc(n) == IF n < 2 THEN n + 1 ELSE n

\* the value of HTTP::processAsync before any store
DefaultProcessAsync == FALSE

\* the members of the second HTTP object before its constructor has run
NoOther ==
    [processAsync |-> DefaultProcessAsync,
     reaperPc |-> "notStarted",
     pc |-> "none",
     callId |-> 0,
     nextId |-> 1,
     respQueue |-> <<>>,
     net |-> [i \in WriteIds |-> NetState("unsent", NoResponse)]]

InitWith(u) ==
    /\ url = u
    /\ endpointUrl = <<>>
    /\ databaseName = <<>>
    /\ ctorExc = "none"
    /\ life = "unconstructed"
    /\ dtorPc = "none"
    /\ processAsync = DefaultProcessAsync
    /\ asyncResultHandler = "none"
    /\ asyncMtx = Free
    /\ respQueue = <<>>
    /\ session = NewSession
    /\ net = [i \in WriteIds |-> NetState("unsent", NoResponse)]
    /\ pc = [c \in Callers |-> "idle"]
    /\ op = [c \in Callers |-> "none"]
    /\ callId = [c \in Callers |-> 0]
    /\ nextId = 1
    /\ result = [c \in Callers |-> NoResult]
    /\ lastResp = [c \in Callers |-> NoResponse]
    /\ requests = [c \in Callers |-> 0]
    /\ reaperPc = "notStarted"
    /\ appended = <<>>
    /\ resolved = <<>>
    /\ waited = [i \in WriteIds |-> 0]
    /\ classified = [i \in WriteIds |-> 0]
    /\ popped = [i \in WriteIds |-> 0]
    /\ overtaken = FALSE
    /\ queuedAtShutdown = {}
    /\ lateResolved = {}
    /\ seenAtExit = {}
    /\ other = NoOther

Init == InitWith(DefaultUrl)

\* ------------------------------------------------------------ construction
\* HTTP::HTTP(const std::string& url), HTTP.cxx:82-89
Construct ==
    LET p == ParseEndpoint(url) IN
    /\ ctorExc' = p.exc
    /\ endpointUrl' = p.endpointUrl
    /\ databaseName' = p.databaseName
    /\ session' = NewSession

\* the thread started by the two-argument constructor, HTTP.cxx:95
\* (started whatever enableAsync is)
StartsThread(enableAsync) == TRUE

\* HTTP::HTTP(const std::string& url), used alone
Ctor1 ==
    /\ life = "unconstructed"
    /\ Construct
    /\ life' = IF ParseEndpoint(url).exc = "none" THEN "alive" ELSE "failed"
    /\ UNCHANGED <<url, other, dtorPc, processAsync, asyncResultHandler, asyncMtx,
                   respQueue, net, callVars, reaperPc, appended, reapHistory,
                   overtaken, stopHistory>>

\* HTTP::HTTP(const std::string& url, bool enableAsync), HTTP.cxx:91-96
Ctor2(enableAsync) ==
    /\ life = "unconstructed"
    /\ Construct
    /\ IF ParseEndpoint(url).exc = "none"
       THEN /\ life' = "alive"
            /\ processAsync' = enableAsync
            /\ IF StartsThread(enableAsync)
               THEN asyncResultHandler' = "joinable" /\ reaperPc' = "loop"
               ELSE UNCHANGED <<asyncResultHandler, reaperPc>>
       ELSE /\ life' = "failed"
            /\ UNCHANGED <<processAsync, asyncResultHandler, reaperPc>>
    /\ UNCHANGED <<url, other, dtorPc, asyncMtx, respQueue, net, callVars, appended,
                   reapHistory, overtaken, stopHistory>>

\* ------------------------------------------------------------------ mutex
\* a lock that is taken without waiting for its holder
CanLockAlways(m) == TRUE

\* std::lock_guard<std::mutex> blocks until the mutex is free,
\* HTTP.cxx:141 and 153
CanLock(m) == m = Free

\* ------------------------------------------------------------------ queue
PushFront(q, x) == <<x>> \o q
\* respQueue.push_back, HTTP.cxx:144
PushBack(q, x) == Append(q, x)

\* respQueue.front(), HTTP.cxx:156 and 159
Front(q) == Head(q)

KeepFront(q) == q
\* respQueue.pop_front(), HTTP.cxx:166
PopFront(q) == Tail(q)

\* ---------------------------------------------------------------- callers
\* the transport can be called: constructed and its destructor not begun
Callable == life = "alive"

\* a write request addressed to the query path
WriteRequestToQuery(lineprotocol) ==
    [url |-> endpointUrl \o <<"/query">>,
     header |-> {"Content-Type: application/json"},
     params |-> Params1("db", databaseName),
     body |-> lineprotocol]

\* the request set up by send and sendAsync, HTTP.cxx:125-128 and 136-139
WriteRequest(lineprotocol) ==
    [url |-> endpointUrl \o <<"/write">>,
     header |-> {"Content-Type: application/json"},
     params |-> Params1("db", databaseName),
     body |-> lineprotocol]

\* the request set up by query and execute, HTTP.cxx:109-110 and 186-187:
\* header and body of the session are left as they are
QueryRequest(text) ==
    [session EXCEPT !.url = endpointUrl \o <<"/query">>,
                    !.params = Params2("db", databaseName, "q", text)]

\* the request set up by createDatabase, HTTP.cxx:197-198
CreateRequest ==
    [session EXCEPT !.url = endpointUrl \o <<"/query">>,
                    !.params = Params1("q", <<"CREATE DATABASE ">> \o databaseName)]

BeginCall(c, name) ==
    /\ Callable
    /\ pc[c] = "idle"
    /\ op' = [op EXCEPT ![c] = name]
    /\ result' = [result EXCEPT ![c] = NoResult]
    /\ lastResp' = [lastResp EXCEPT ![c] = NoResponse]
    /\ requests' = [requests EXCEPT ![c] = 0]

\* HTTP::sendAsync, HTTP.cxx:136-139: the session is set up
SendAsyncCall(c) ==
    /\ nextId <= MaxWrites
    /\ BeginCall(c, "sendAsync")
    /\ session' = WriteRequest(nextId)
    /\ callId' = [callId EXCEPT ![c] = nextId]
    /\ nextId' = nextId + 1
    /\ pc' = [pc EXCEPT ![c] = "sa_lock"]
    /\ UNCHANGED <<configVars, other, lifeVars, asyncMtx, respQueue, net, reaperPc,
                   appended, reapHistory, overtaken, stopHistory>>

\* HTTP.cxx:141: the lock_guard takes asyncMtx
SendAsyncLock(c) ==
    /\ pc[c] = "sa_lock"
    /\ CanLock(asyncMtx)
    /\ asyncMtx' = c
    /\ pc' = [pc EXCEPT ![c] = "sa_push"]
    /\ UNCHANGED <<configVars, other, lifeVars, respQueue, session, net, op, callId,
                   nextId, result, lastResp, requests, reaperPc, appended,
                   reapHistory, overtaken, stopHistory>>

\* HTTP.cxx:144: session->PostAsync() and respQueue.push_back
SendAsyncPush(c) ==
    /\ pc[c] = "sa_push"
    /\ net' = [net EXCEPT ![callId[c]] = NetState("inflight", NoResponse)]
    /\ requests' = [requests EXCEPT ![c] = Inc(requests[c])]
    /\ respQueue' = PushBack(respQueue, callId[c])
    /\ appended' = Append(appended, callId[c])
    /\ pc' = [pc EXCEPT ![c] = "sa_unlock"]
    /\ UNCHANGED <<configVars, other, lifeVars, asyncMtx, session, op, callId, nextId,
                   result, lastResp, reaperPc, reapHistory, overtaken,
                   stopHistory>>

\* a sendAsync that waits for the response of its write and classifies it
SendAsyncReturnAfterWait(c) ==
    /\ pc[c] = "sa_unlock"
    /\ net[callId[c]].st = "done"
    /\ asyncMtx' = Free
    /\ lastResp' = [lastResp EXCEPT ![c] = net[callId[c]].resp]
    /\ LET e == CheckResponse(net[callId[c]].resp) IN
       result' = [result EXCEPT ![c] =
                    [exc |-> e.exc, kind |-> e.kind, code |-> e.code,
                     val |-> "void"]]
    /\ pc' = [pc EXCEPT ![c] = "idle"]
    /\ UNCHANGED <<configVars, other, lifeVars, respQueue, session, net, op, callId,
                   nextId, requests, reaperPc, appended, reapHistory,
                   overtaken, stopHistory>>

\* HTTP.cxx:145: the lock_guard releases asyncMtx and sendAsync returns
SendAsyncReturn(c) ==
    /\ pc[c] = "sa_unlock"
    /\ asyncMtx' = Free
    /\ result' = [result EXCEPT ![c] = [NoResult EXCEPT !.val = "void"]]
    /\ pc' = [pc EXCEPT ![c] = "idle"]
    /\ UNCHANGED <<configVars, other, lifeVars, respQueue, session, net, op, callId,
                   nextId, lastResp, requests, reaperPc, appended, reapHistory,
                   overtaken, stopHistory>>

SetUp(c, name, request) ==
    /\ BeginCall(c, name)
    /\ session' = request
    /\ pc' = [pc EXCEPT ![c] = "blocking"]
    /\ UNCHANGED <<configVars, other, lifeVars, asyncMtx, respQueue, net, callId,
                   nextId, reaperPc, appended, reapHistory, overtaken,
                   stopHistory>>

\* HTTP::query, HTTP.cxx:109-110
Query(c) == \E q \in Queries : SetUp(c, "query", QueryRequest(q))

\* HTTP::execute, HTTP.cxx:186-187
Execute(c) == \E q \in Queries : SetUp(c, "execute", QueryRequest(q))

\* HTTP::send, HTTP.cxx:125-128
Send(c) == \E p \in SyncPayloads : SetUp(c, "send", WriteRequest(p))

\* HTTP::createDatabase, HTTP.cxx:197-198
CreateDatabase(c) == SetUp(c, "createDatabase", CreateRequest)

\* what a blocking operation gives its caller
ReturnValue(name, resp) ==
    IF name \in {"query", "execute"} THEN resp.text ELSE "void"

\* session->Get() / session->Post() and checkResponse of the blocking
\* operations, HTTP.cxx:112-115, 130-131, 189-192, 200-201
BlockingCall(c, resp) ==
    /\ pc[c] = "blocking"
    /\ requests' = [requests EXCEPT ![c] = Inc(requests[c])]
    /\ lastResp' = [lastResp EXCEPT ![c] = resp]
    /\ LET e == CheckResponse(resp) IN
       result' = [result EXCEPT ![c] =
                    [exc |-> e.exc, kind |-> e.kind, code |-> e.code,
                     val |-> IF e.exc = "none" THEN ReturnValue(op[c], resp)
                             ELSE "none"]]
    /\ pc' = [pc EXCEPT ![c] = "idle"]
    /\ UNCHANGED <<configVars, other, lifeVars, asyncMtx, respQueue, session, net, op,
                   callId, nextId, reaperPc, appended, reapHistory, overtaken,
                   stopHistory>>

\* the verb of each operation: session->Get() at HTTP.cxx:112 and 189,
\* session->Post() at 130 and 200, session->PostAsync() at 144
Method(name) == IF name \in {"query", "execute"} THEN "GET" ELSE "POST"

\* the request that Get, Post or PostAsync makes of the session when caller c
\* reaches it, HTTP.cxx:112, 130, 144, 189, 200
IssuedRequest(c) ==
    [method |-> Method(op[c]),
     url |-> session.url,
     params |-> session.params,
     header |-> session.header,
     body |-> session.body]

\* ---------------------------------------------------------------- network
\* the response of an asynchronous request arrives
NetComplete(i, resp) ==
    /\ net[i].st = "inflight"
    /\ net' = [net EXCEPT ![i] = NetState("done", resp)]
    /\ overtaken' = (overtaken \/ \E j \in WriteIds :
                        /\ net[j].st = "inflight"
                        /\ \E a, b \in 1..Len(appended) :
                              a < b /\ appended[a] = j /\ appended[b] = i)
    /\ UNCHANGED <<configVars, other, lifeVars, asyncMtx, respQueue, session, callVars,
                   reaperPc, appended, reapHistory, stopHistory>>

\* ----------------------------------------------------------------- reaper
\* the process runs: std::terminate has not been called
Running == life \in {"alive", "dtor"}

\* a loop that goes on while writes are queued
LoopCondDrain(flag, q) == flag \/ Len(q) > 0

\* a loop that never reads processAsync
LoopCondForever(flag, q) == TRUE

\* while( processAsync.load() ), HTTP.cxx:149
LoopCond(flag, q) == flag

\* HTTP.cxx:149: the flag is read at the top of an iteration
ReaperLoop ==
    /\ Running
    /\ reaperPc = "loop"
    /\ reaperPc' = IF LoopCond(processAsync, respQueue) THEN "sleep" ELSE "exited"
    /\ seenAtExit' = IF processAsync THEN seenAtExit ELSE Range(respQueue)
    /\ UNCHANGED <<configVars, other, lifeVars, asyncMtx, respQueue, session, net,
                   callVars, appended, reapHistory, overtaken, queuedAtShutdown,
                   lateResolved>>

\* HTTP.cxx:151: std::this_thread::sleep_for(100ms)
ReaperSleep ==
    /\ Running
    /\ reaperPc = "sleep"
    /\ reaperPc' = "lock"
    /\ UNCHANGED <<configVars, other, lifeVars, asyncMtx, respQueue, session, net,
                   callVars, appended, reapHistory, overtaken, stopHistory>>

\* HTTP.cxx:153: the lock_guard takes asyncMtx
ReaperLock ==
    /\ Running
    /\ reaperPc = "lock"
    /\ CanLock(asyncMtx)
    /\ asyncMtx' = Reaper
    /\ reaperPc' = "size"
    /\ UNCHANGED <<configVars, other, lifeVars, respQueue, session, net, callVars,
                   appended, reapHistory, overtaken, stopHistory>>

\* HTTP.cxx:154: while( respQueue.size() > 0 )
ReaperSize ==
    /\ Running
    /\ reaperPc = "size"
    /\ reaperPc' = IF Len(respQueue) > 0 THEN "wait" ELSE "unlock"
    /\ UNCHANGED <<configVars, other, lifeVars, asyncMtx, respQueue, session, net,
                   callVars, appended, reapHistory, overtaken, stopHistory>>

Late(i) == IF i \in queuedAtShutdown THEN lateResolved \cup {i} ELSE lateResolved

\* HTTP.cxx:156: respQueue.front().wait() returns when the response is there
ReaperWait ==
    /\ Running
    /\ reaperPc = "wait"
    /\ net[Front(respQueue)].st = "done"
    /\ waited' = [waited EXCEPT ![Front(respQueue)] = Inc(@)]
    /\ lateResolved' = Late(Front(respQueue))
    /\ reaperPc' = "check"
    /\ UNCHANGED <<configVars, other, lifeVars, asyncMtx, respQueue, session, net,
                   callVars, appended, resolved, classified, popped, overtaken,
                   queuedAtShutdown, seenAtExit>>

\* HTTP.cxx:157-164: checkResponse( respQueue.front().get() ) in try/catch;
\* an exception no handler catches ends the process (std::terminate)
ReaperCheck ==
    /\ Running
    /\ reaperPc = "check"
    /\ classified' = [classified EXCEPT ![Front(respQueue)] = Inc(@)]
    /\ lateResolved' = Late(Front(respQueue))
    /\ LET e == CheckResponse(net[Front(respQueue)].resp) IN
       IF e.exc = "none" \/ Catches(e)
       THEN reaperPc' = "pop" /\ UNCHANGED life
       ELSE reaperPc' = "aborted" /\ life' = "terminated"
    /\ UNCHANGED <<configVars, other, dtorPc, processAsync, asyncResultHandler,
                   asyncMtx, respQueue, session, net, callVars, appended,
                   resolved, waited, popped, overtaken, queuedAtShutdown,
                   seenAtExit>>

\* HTTP.cxx:166: respQueue.pop_front() destroys the handle
ReaperPop ==
    /\ Running
    /\ reaperPc = "pop"
    /\ respQueue' = PopFront(respQueue)
    /\ popped' = [popped EXCEPT ![Front(respQueue)] = Inc(@)]
    /\ resolved' = Append(resolved, Front(respQueue))
    /\ net' = [net EXCEPT ![Front(respQueue)] = NetState("gone", NoResponse)]
    /\ reaperPc' = "size"
    /\ UNCHANGED <<configVars, other, lifeVars, asyncMtx, session, callVars, appended,
                   waited, classified, overtaken, stopHistory>>

\* HTTP.cxx:168: the lock_guard releases asyncMtx at the end of the iteration
ReaperUnlock ==
    /\ Running
    /\ reaperPc = "unlock"
    /\ asyncMtx' = Free
    /\ reaperPc' = "loop"
    /\ UNCHANGED <<configVars, other, lifeVars, respQueue, session, net, callVars,
                   appended, reapHistory, overtaken, stopHistory>>

\* ------------------------------------------------------------- destructor
\* HTTP.cxx:100: if(processAsync.load()); the owner destroys the transport
\* when no caller is inside a call
DtorLoad ==
    /\ life = "alive"
    /\ \A c \in Callers : pc[c] = "idle"
    /\ life' = "dtor"
    /\ dtorPc' = IF processAsync THEN "store" ELSE "members"
    /\ UNCHANGED <<configVars, other, processAsync, asyncResultHandler, asyncMtx,
                   respQueue, session, net, callVars, reaperPc, appended,
                   reapHistory, overtaken, stopHistory>>

\* HTTP.cxx:102: processAsync.store(false)
DtorStore ==
    /\ life = "dtor"
    /\ dtorPc = "store"
    /\ processAsync' = FALSE
    /\ queuedAtShutdown' = Range(respQueue)
    /\ dtorPc' = "join"
    /\ UNCHANGED <<configVars, other, life, asyncResultHandler, asyncMtx, respQueue,
                   session, net, callVars, reaperPc, appended, reapHistory,
                   overtaken, lateResolved, seenAtExit>>

\* HTTP.cxx:103: asyncResultHandler.join() returns when the thread has ended
DtorJoin ==
    /\ life = "dtor"
    /\ dtorPc = "join"
    /\ reaperPc = "exited"
    /\ asyncResultHandler' = "joined"
    /\ dtorPc' = "members"
    /\ UNCHANGED <<configVars, other, life, processAsync, asyncMtx, respQueue, session,
                   net, callVars, reaperPc, appended, reapHistory, overtaken,
                   stopHistory>>

\* HTTP.cxx:105: the members are destroyed; ~thread of a joinable
\* std::thread calls std::terminate
DtorMembers ==
    /\ life = "dtor"
    /\ dtorPc = "members"
    /\ life' = IF asyncResultHandler = "joinable" THEN "terminated" ELSE "destroyed"
    /\ dtorPc' = "done"
    /\ UNCHANGED <<configVars, other, processAsync, asyncResultHandler, asyncMtx,
                   respQueue, session, net, callVars, reaperPc, appended,
                   reapHistory, overtaken, stopHistory>>

\* ---------------------------------------------------------- second object
\* a second HTTP object made by HTTP::HTTP(url, enableAsync), HTTP.cxx:91-96,
\* from a well-formed connection string
OtherCtor2(enableAsync) ==
    /\ other.pc = "none"
    /\ other' = [other EXCEPT !.processAsync = enableAsync,
                              !.reaperPc = "loop",
                              !.pc = "idle"]
    /\ UNCHANGED <<asyncMtx, thisObject>>

\* HTTP::sendAsync on the second object, HTTP.cxx:136-139
OtherSendAsyncCall ==
    /\ other.pc = "idle"
    /\ other.nextId <= MaxWrites
    /\ other' = [other EXCEPT !.callId = other.nextId,
                              !.nextId = other.nextId + 1,
                              !.pc = "sa_lock"]
    /\ UNCHANGED <<asyncMtx, thisObject>>

\* HTTP.cxx:141: the lock_guard takes asyncMtx, the one mutex of line 80
OtherSendAsyncLock ==
    /\ other.pc = "sa_lock"
    /\ CanLock(asyncMtx)
    /\ asyncMtx' = OtherCaller
    /\ other' = [other EXCEPT !.pc = "sa_push"]
    /\ UNCHANGED thisObject

\* HTTP.cxx:144
OtherSendAsyncPush ==
    /\ other.pc = "sa_push"
    /\ other' = [other EXCEPT
                   !.net[other.callId] = NetState("inflight", NoResponse),
                   !.respQueue = PushBack(other.respQueue, other.callId),
                   !.pc = "sa_unlock"]
    /\ UNCHANGED <<asyncMtx, thisObject>>

\* HTTP.cxx:145
OtherSendAsyncReturn ==
    /\ other.pc = "sa_unlock"
    /\ asyncMtx' = Free
    /\ other' = [other EXCEPT !.pc = "idle"]
    /\ UNCHANGED thisObject

\* the response of an asynchronous request of the second object arrives
OtherNetComplete(i, resp) ==
    /\ other.net[i].st = "inflight"
    /\ other' = [other EXCEPT !.net[i] = NetState("done", resp)]
    /\ UNCHANGED <<asyncMtx, thisObject>>

\* std::terminate has not been called
ProcessRuns == life # "terminated"

\* HTTP::handleAsyncResult of the second object, HTTP.cxx:149
OtherReaperLoop ==
    /\ ProcessRuns
    /\ other.reaperPc = "loop"
    /\ other' = [other EXCEPT !.reaperPc =
                   IF LoopCond(other.processAsync, other.respQueue)
                   THEN "sleep" ELSE "exited"]
    /\ UNCHANGED <<asyncMtx, thisObject>>

\* HTTP.cxx:151
OtherReaperSleep ==
    /\ ProcessRuns
    /\ other.reaperPc = "sleep"
    /\ other' = [other EXCEPT !.reaperPc = "lock"]
    /\ UNCHANGED <<asyncMtx, thisObject>>

\* HTTP.cxx:153: the lock_guard takes asyncMtx, the one mutex of line 80
OtherReaperLock ==
    /\ ProcessRuns
    /\ other.reaperPc = "lock"
    /\ CanLock(asyncMtx)
    /\ asyncMtx' = OtherReaper
    /\ other' = [other EXCEPT !.reaperPc = "size"]
    /\ UNCHANGED thisObject

\* HTTP.cxx:154
OtherReaperSize ==
    /\ ProcessRuns
    /\ other.reaperPc = "size"
    /\ other' = [other EXCEPT !.reaperPc =
                   IF Len(other.respQueue) > 0 THEN "wait" ELSE "unlock"]
    /\ UNCHANGED <<asyncMtx, thisObject>>

\* HTTP.cxx:156
OtherReaperWait ==
    /\ ProcessRuns
    /\ other.reaperPc = "wait"
    /\ other.net[Front(other.respQueue)].st = "done"
    /\ other' = [other EXCEPT !.reaperPc = "check"]
    /\ UNCHANGED <<asyncMtx, thisObject>>

\* HTTP.cxx:157-164; an exception no handler catches ends the process
OtherReaperCheck ==
    /\ ProcessRuns
    /\ other.reaperPc = "check"
    /\ LET e == CheckResponse(other.net[Front(other.respQueue)].resp) IN
       IF e.exc = "none" \/ Catches(e)
       THEN other' = [other EXCEPT !.reaperPc = "pop"] /\ UNCHANGED life
       ELSE other' = [other EXCEPT !.reaperPc = "aborted"] /\ life' = "terminated"
    /\ UNCHANGED <<asyncMtx, configVars, dtorPc, processAsync,
                   asyncResultHandler, respQueue, session, net, callVars,
                   reaperPc, appended, reapHistory, overtaken, stopHistory>>

\* HTTP.cxx:166
OtherReaperPop ==
    /\ ProcessRuns
    /\ other.reaperPc = "pop"
    /\ other' = [other EXCEPT
                   !.respQueue = PopFront(other.respQueue),
                   !.net[Front(other.respQueue)] = NetState("gone", NoResponse),
                   !.reaperPc = "size"]
    /\ UNCHANGED <<asyncMtx, thisObject>>

\* HTTP.cxx:168
OtherReaperUnlock ==
    /\ ProcessRuns
    /\ other.reaperPc = "unlock"
    /\ asyncMtx' = Free
    /\ other' = [other EXCEPT !.reaperPc = "loop"]
    /\ UNCHANGED thisObject

\* --------------------------------------------------------- specifications
ReaperStep ==
    \/ ReaperLoop
    \/ ReaperSleep
    \/ ReaperLock
    \/ ReaperSize
    \/ ReaperWait
    \/ ReaperCheck
    \/ ReaperPop
    \/ ReaperUnlock

DtorStep ==
    \/ DtorLoad
    \/ DtorStore
    \/ DtorJoin
    \/ DtorMembers

Next ==
    \/ Ctor1
    \/ \E e \in BOOLEAN : Ctor2(e)
    \/ \E c \in Callers : SendAsyncCall(c)
    \/ \E c \in Callers : SendAsyncLock(c)
    \/ \E c \in Callers : SendAsyncPush(c)
    \/ \E c \in Callers : SendAsyncReturn(c)
    \/ \E c \in Callers : Send(c)
    \/ \E c \in Callers : \E r \in AsyncResponses : BlockingCall(c, r)
    \/ \E i \in WriteIds : \E r \in AsyncResponses : NetComplete(i, r)
    \/ ReaperStep
    \/ DtorStep

\* the transport with its callers, its reaper thread and its owner
Spec == Init /\ [][Next]_vars

SyncNext ==
    \/ Ctor1
    \/ \E c \in Callers : Query(c)
    \/ \E c \in Callers : Execute(c)
    \/ \E c \in Callers : Send(c)
    \/ \E c \in Callers : CreateDatabase(c)
    \/ \E c \in Callers : \E r \in Responses : BlockingCall(c, r)

\* the blocking operations alone, with every response
SyncSpec == Init /\ [][SyncNext]_vars

ParseInit == \E u \in UrlsUpTo(MaxUrlLen) : InitWith(u)

\* construction from every connection string
ParseSpec == ParseInit /\ [][Ctor1]_vars

\* one caller using every operation of the transport
CallNext ==
    \/ Ctor1
    \/ \E e \in BOOLEAN : Ctor2(e)
    \/ SendAsyncCall("c1")
    \/ SendAsyncLock("c1")
    \/ SendAsyncPush("c1")
    \/ SendAsyncReturn("c1")
    \/ Send("c1")
    \/ Query("c1")
    \/ Execute("c1")
    \/ CreateDatabase("c1")
    \/ \E r \in AsyncResponses : BlockingCall("c1", r)
    \/ \E i \in WriteIds : \E r \in AsyncResponses : NetComplete(i, r)
    \/ ReaperStep
    \/ DtorStep

CallSpec == Init /\ [][CallNext]_vars

OtherReaperStep ==
    \/ OtherReaperLoop
    \/ OtherReaperSleep
    \/ OtherReaperLock
    \/ OtherReaperSize
    \/ OtherReaperWait
    \/ OtherReaperCheck
    \/ OtherReaperPop
    \/ OtherReaperUnlock

\* two HTTP objects in one process, each with one caller of sendAsync and
\* its reaper
TwoNext ==
    \/ \E e \in BOOLEAN : Ctor2(e)
    \/ SendAsyncCall("c1")
    \/ SendAsyncLock("c1")
    \/ SendAsyncPush("c1")
    \/ SendAsyncReturn("c1")
    \/ \E i \in WriteIds : \E r \in AsyncResponses : NetComplete(i, r)
    \/ ReaperStep
    \/ \E e \in BOOLEAN : OtherCtor2(e)
    \/ OtherSendAsyncCall
    \/ OtherSendAsyncLock
    \/ OtherSendAsyncPush
    \/ OtherSendAsyncReturn
    \/ \E i \in WriteIds : \E r \in AsyncResponses : OtherNetComplete(i, r)
    \/ OtherReaperStep

TwoSpec == Init /\ [][TwoNext]_vars

\* the scheduler runs every thread that can take a step, and every request
\* in flight completes or times out (the timeouts of HTTP.cxx:86-87)
Fairness ==
    /\ WF_vars(ReaperStep)
    /\ WF_vars(DtorStep)
    /\ WF_vars(\E i \in WriteIds : \E r \in AsyncResponses : NetComplete(i, r))
    /\ \A c \in Callers : WF_vars(SendAsyncPush(c) \/ SendAsyncReturn(c))
    /\ \A c \in Callers : SF_vars(SendAsyncLock(c))

FairSpec == Spec /\ Fairness

\* the same scheduling while the owner keeps the transport: nothing obliges
\* the destructor to run, and a thread blocked in a lock_guard (HTTP.cxx:141
\* and 153) gets the mutex if it is free again and again
AliveFairness ==
    /\ WF_vars(ReaperStep)
    /\ SF_vars(ReaperLock)
    /\ WF_vars(\E i \in WriteIds : \E r \in AsyncResponses : NetComplete(i, r))
    /\ \A c \in Callers : WF_vars(SendAsyncPush(c) \/ SendAsyncReturn(c))
    /\ \A c \in Callers : SF_vars(SendAsyncLock(c))

\* the asynchronous side alone: two callers of sendAsync, the network, the
\* reaper and the owner
AliveNext ==
    \/ \E e \in BOOLEAN : Ctor2(e)
    \/ \E c \in Callers : SendAsyncCall(c)
    \/ \E c \in Callers : SendAsyncLock(c)
    \/ \E c \in Callers : SendAsyncPush(c)
    \/ \E c \in Callers : SendAsyncReturn(c)
    \/ \E i \in WriteIds : \E r \in AsyncResponses : NetComplete(i, r)
    \/ ReaperStep
    \/ DtorStep

AliveSpec == Init /\ [][AliveNext]_vars /\ AliveFairness

\* ------------------------------------------------------------------ claims
\* the write the reaper is waiting on, classifying or removing
InHand == reaperPc \in {"wait", "check", "pop"}

\* C1: the reaper waits on, classifies and removes the pending writes in
\* exactly the order in which push_back appended them, whatever the order in
\* which their responses arrive: the resolved writes are a prefix of the
\* appended ones, and the write in the reaper's hands is the next appended.
C1_FifoResolution ==
    /\ Len(resolved) <= Len(appended)
    /\ \A k \in 1..Len(resolved) : resolved[k] = appended[k]
    /\ InHand =>
          /\ Len(resolved) < Len(appended)
          /\ Front(respQueue) = appended[Len(resolved) + 1]

\* two writes were resolved although a later one's response arrived first
C1_Witness == Len(resolved) >= 2 /\ overtaken

\* the threads about to read or change respQueue
QueueAccessors ==
    {c \in Callers : pc[c] = "sa_push"}
        \cup (IF reaperPc \in {"size", "wait", "check", "pop"} THEN {Reaper} ELSE {})

ExclusiveAccess == \A t \in QueueAccessors : asyncMtx = t

\* C2: every thread that reads or changes respQueue holds asyncMtx (so at
\* most one does at a time), the queue grows only by a sendAsync appending at
\* the tail and shrinks only by the reaper removing the front.
C2_QueueUnderMutex ==
    [][ /\ ExclusiveAccess
        /\ ExclusiveAccess'
        /\ Len(respQueue') > Len(respQueue) =>
              \E c \in Callers :
                 /\ pc[c] = "sa_push"
                 /\ respQueue' = Append(respQueue, callId[c])
        /\ Len(respQueue') < Len(respQueue) =>
              /\ reaperPc = "pop"
              /\ respQueue' = Tail(respQueue)
        /\ Len(respQueue') = Len(respQueue) => respQueue' = respQueue ]_vars

\* a caller waits for the mutex while the reaper, holding it, removes a write
C2_Witness ==
    /\ reaperPc = "pop"
    /\ asyncMtx = Reaper
    /\ \E c \in Callers : pc[c] = "sa_lock"

\* C3: a sendAsync call never waits for the completion of a network
\* request: no caller is held at the lock of HTTP.cxx:141 by a reaper that
\* keeps asyncMtx while waiting for a response still in flight.
C3_SendAsyncNeverWaitsOnNetwork ==
    ~ \E c \in Callers :
         /\ pc[c] = "sa_lock"
         /\ asyncMtx = Reaper
         /\ reaperPc = "wait"
         /\ net[Front(respQueue)].st = "inflight"

\* C4: under fair scheduling, with every request in flight completing, the
\* destructor of a transport that processes asynchronously (it found
\* processAsync set and goes on to clear it and join) always completes,
\* whatever is still queued.
C4_DestructionCompletes == (dtorPc = "store") ~> (life = "destroyed")

\* the destructor has joined the reaper and finished with writes still queued
C4_Witness ==
    /\ life = "destroyed"
    /\ asyncResultHandler = "joined"
    /\ Len(respQueue) = MaxWrites

\* C5 as stated: no write that is in the queue at the moment the destructor
\* clears processAsync is waited on or classified after that moment.
C5_AbandonedAtShutdown == lateResolved = {}

\* C5 as amended: a write that is in the queue when the reaper reads the
\* cleared flag at the top of its loop, and exits, is abandoned: the reaper
\* has not waited on it, classified it or removed it, and never does.
C5_AbandonedAtExit ==
    \A i \in seenAtExit :
       /\ reaperPc = "exited"
       /\ i \in Range(respQueue)
       /\ waited[i] = 0
       /\ classified[i] = 0
       /\ popped[i] = 0

\* the transport was destroyed after the reaper left writes in the queue
C5_Witness ==
    /\ life = "destroyed"
    /\ seenAtExit # {}
    /\ seenAtExit = queuedAtShutdown

\* a response that checkResponse turns into an exception
Failing(resp) == resp.errorCode # 0 \/ resp.status < 200 \/ resp.status >= 300

\* C6: a failed asynchronous write never ends the reaper loop and never
\* reaches a caller: the reaper is never stopped by an exception, a write it
\* has classified is the one it removes next or is out of the queue, sendAsync
\* never throws, and a blocking send throws only for its own failing response.
C6_AsyncFailureContained ==
    /\ reaperPc # "aborted"
    /\ \A i \in WriteIds :
          classified[i] > 0 =>
             \/ reaperPc = "pop" /\ Front(respQueue) = i /\ popped[i] = 0
             \/ popped[i] = 1 /\ i \notin Range(respQueue)
    /\ \A c \in Callers :
          /\ op[c] = "sendAsync" => result[c].exc = "none"
          /\ result[c].exc # "none" => op[c] = "send" /\ Failing(lastResp[c])
          /\ (op[c] = "send" /\ pc[c] = "idle" /\ ~Failing(lastResp[c])) =>
                result[c].exc = "none"

\* the reaper has classified a failed write, with the next write queued behind
\* it, while a blocking send of a caller has returned without an exception
C6_Witness ==
    /\ reaperPc = "pop"
    /\ Failing(net[Front(respQueue)].resp)
    /\ Len(respQueue) >= 2
    /\ \E c \in Callers :
          op[c] = "send" /\ pc[c] = "idle" /\ result[c].val = "void"

\* C7: a reaper thread is started if and only if the transport was constructed
\* to process asynchronously, and a started thread has been joined when the
\* destructor is done (it is never destroyed joinable, which ends the process).
C7_ReaperIffRunning ==
    /\ life = "alive" => (asyncResultHandler = "joinable" <=> processAsync)
    /\ life = "destroyed" => asyncResultHandler # "joinable"
    /\ life # "terminated"

BlockingOps == {"query", "execute", "send", "createDatabase"}

\* C8: every blocking operation classifies its response by one rule: a
\* transport error throws (first, whatever the status), otherwise a status
\* outside 200..299 throws with that status, otherwise the call succeeds,
\* query and execute with the response text, send and createDatabase with
\* nothing.
C8_BlockingClassification ==
    \A c \in Callers :
       (op[c] \in BlockingOps /\ pc[c] = "idle") =>
          LET r == lastResp[c]
              x == result[c]
          IN  IF r.errorCode # 0
              THEN x.exc = "InfluxDBException" /\ x.kind = "Request error"
                   /\ x.code = r.errorCode /\ x.val = "none"
              ELSE IF r.status < 200 \/ r.status > 299
              THEN x.exc = "InfluxDBException" /\ x.kind = "Request failed"
                   /\ x.code = r.status /\ x.val = "none"
              ELSE /\ x.exc = "none"
                   /\ op[c] \in {"query", "execute"} => x.val = r.text
                   /\ op[c] \in {"send", "createDatabase"} => x.val = "void"

\* createDatabase threw the transport error of a response whose status is 200
\* while a query of the other caller returned the text of its response
C8_Witness ==
    \E c, d \in Callers :
       /\ op[c] = "createDatabase" /\ pc[c] = "idle"
       /\ lastResp[c].errorCode # 0 /\ lastResp[c].status = 200
       /\ result[c].kind = "Request error"
       /\ op[d] = "query" /\ pc[d] = "idle"
       /\ result[d].val = "body"

\* C9: nothing is retried: a finished call has issued exactly one HTTP
\* request (a call in progress at most one), and the reaper waits on,
\* classifies and removes each pending write at most once, a write it has
\* classified being removed exactly once when it moves on.
C9_NoRetries ==
    /\ \A c \in Callers :
          /\ requests[c] <= 1
          /\ (op[c] # "none" /\ pc[c] = "idle") => requests[c] = 1
    /\ \A i \in WriteIds :
          /\ waited[i] <= 1
          /\ classified[i] <= waited[i]
          /\ popped[i] <= classified[i]
          /\ (classified[i] = 1 /\ ~(reaperPc = "pop" /\ Front(respQueue) = i)) =>
                popped[i] = 1 /\ i \notin Range(respQueue)

\* a failed write has been waited on, classified and removed once, and the
\* caller has since finished a createDatabase
C9_Witness ==
    /\ \A i \in WriteIds : waited[i] = 1 /\ classified[i] = 1 /\ popped[i] = 1
    /\ op["c1"] = "createDatabase" /\ pc["c1"] = "idle" /\ requests["c1"] = 1
    /\ result["c1"].exc # "none"

DbMarker == <<"?", "d", "b", "=">>

\* url is base?db=name with a base that is not empty and holds no '?'
HasForm(u, base, name) ==
    /\ u = base \o DbMarker \o name
    /\ base # <<>>
    /\ "?" \notin Range(base)

StripSlash(base) ==
    IF base[Len(base)] = "/" THEN SubSeq(base, 1, Len(base) - 1) ELSE base

Prefixes(u) == {SubSeq(u, 1, k) : k \in 0..Len(u)}
Suffixes(u) == {SubSeq(u, k, Len(u)) : k \in 1..(Len(u) + 1)}

\* C10: once the constructor has run, a connection string base?db=NAME gave
\* the base without one trailing '/' and the database NAME, a connection
\* string without "?db=" made it fail with the InfluxDBException "No
\* Database specified", and no connection string made it end any other way.
C10_EndpointParsing ==
    life # "unconstructed" =>
       /\ \A base \in Prefixes(url) : \A name \in Suffixes(url) :
             HasForm(url, base, name) =>
                /\ ctorExc = "none"
                /\ endpointUrl = StripSlash(base)
                /\ databaseName = name
       /\ (\A i \in 0..Len(url) : ~MatchesAt(url, DbMarker, i)) =>
             ctorExc = "InfluxDBException"
       /\ ctorExc \in {"none", "InfluxDBException"}

\* C11: after a successful construction the database name is not empty, the
\* base URL holds no '?' and does not keep the '/' that stood immediately
\* before the first '?' of the connection string.
C11_EndpointConfigValid ==
    life = "alive" =>
       /\ databaseName # <<>>
       /\ "?" \notin Range(endpointUrl)
       /\ LET q == FindChar(url, "?") IN
          ~(q > 0 /\ CharAt(url, q - 1) = "/" /\ Len(endpointUrl) >= q)

\* the request an operation makes of a session that no call has used
FreshRequest(name, request) ==
    [method |-> Method(name),
     url |-> request.url,
     params |-> request.params,
     header |-> NewSession.header,
     body |-> NewSession.body]

\* C12: the request of query, execute and createDatabase depends only on the
\* arguments and on the endpoint: it is the one the operation would issue on
\* a session that no earlier call has used, with no header and no body left
\* by an earlier send or sendAsync.
C12_StatelessExecutor ==
    \A c \in Callers :
       pc[c] = "blocking" =>
          /\ op[c] = "createDatabase" =>
                IssuedRequest(c) = FreshRequest("createDatabase", CreateRequest)
          /\ op[c] \in {"query", "execute"} =>
                \E q \in Queries :
                   IssuedRequest(c) = FreshRequest(op[c], QueryRequest(q))

\* caller c is at the Get, Post or PostAsync of its operation
Issuing(c) == pc[c] \in {"blocking", "sa_push"}

QueryPath == <<"/query">>
WritePath == <<"/write">>

\* method, target and body of the requests, common to C13 as stated and as
\* amended
RequestShape(c) ==
    LET r == IssuedRequest(c) IN
    /\ op[c] \in {"query", "execute"} =>
          /\ r.method = "GET"
          /\ r.url = endpointUrl \o QueryPath
          /\ \E q \in Queries : r.params = Params2("db", databaseName, "q", q)
    /\ op[c] = "send" =>
          /\ r.method = "POST"
          /\ r.url = endpointUrl \o WritePath
          /\ r.params = Params1("db", databaseName)
          /\ r.body \in SyncPayloads
    /\ op[c] = "sendAsync" =>
          /\ r.method = "POST"
          /\ r.url = endpointUrl \o WritePath
          /\ r.params = Params1("db", databaseName)
          /\ r.body = callId[c]
    /\ op[c] = "createDatabase" =>
          /\ r.method = "POST"
          /\ r.url = endpointUrl \o QueryPath
          /\ "q" \in DOMAIN r.params
          /\ r.params["q"] = <<"CREATE DATABASE ">> \o databaseName

\* C13 as stated: every request one caller issues targets the base URL and
\* the path of its operation, with the method, parameters and body of that
\* operation, and always has the parameter db with the database name.
C13_RequestsAlwaysCarryDb ==
    \A c \in Callers :
       Issuing(c) =>
          /\ RequestShape(c)
          /\ "db" \in DOMAIN IssuedRequest(c).params
          /\ IssuedRequest(c).params["db"] = databaseName

\* C13 as amended: the same, but the parameter db is there for query,
\* execute, send and sendAsync only; createDatabase has the one parameter q.
C13_RequestsCarryDbButCreate ==
    \A c \in Callers :
       Issuing(c) =>
          /\ RequestShape(c)
          /\ IF op[c] = "createDatabase"
             THEN DOMAIN IssuedRequest(c).params = {"q"}
             ELSE /\ "db" \in DOMAIN IssuedRequest(c).params
                  /\ IssuedRequest(c).params["db"] = databaseName

\* createDatabase is at its Post, after an asynchronous write of the caller
C13_Witness ==
    /\ pc["c1"] = "blocking"
    /\ op["c1"] = "createDatabase"
    /\ callId["c1"] > 0
    /\ endpointUrl # <<>>

\* C14: once sendAsync has submitted its write it can return at once,
\* whether or not the response of that write has arrived, and what it gives
\* the caller is nothing: no exception, no value, no response.
C14_SendAsyncReturnsWithoutOutcome ==
    \A c \in Callers :
       /\ pc[c] = "sa_unlock" => ENABLED SendAsyncReturn(c)
       /\ (op[c] = "sendAsync" /\ pc[c] = "idle") =>
             /\ result[c] = [NoResult EXCEPT !.val = "void"]
             /\ lastResp[c] = NoResponse

\* sendAsync has returned while the response of its write is outstanding
C14_Witness ==
    \E c \in Callers :
       /\ op[c] = "sendAsync"
       /\ pc[c] = "idle"
       /\ result[c].val = "void"
       /\ net[callId[c]].st = "inflight"

\* the destructor has cleared processAsync (or found it clear)
FlagCleared == dtorPc \in {"join", "members", "done"}

\* C15: the reaper's loop is left only from its top, on reading processAsync
\* false; a pass (sleep and drain) begins only on reading it true; and once
\* the destructor has cleared the flag it stays clear, so the pass in progress
\* at that moment is the last and no other begins.
C15_ExitAtTopOfLoop ==
    [][ /\ (reaperPc # "exited" /\ reaperPc' = "exited") =>
              (reaperPc = "loop" /\ ~processAsync)
        /\ (reaperPc = "loop" /\ reaperPc' # "loop") =>
              (reaperPc' = IF processAsync THEN "sleep" ELSE "exited")
        /\ (reaperPc # "sleep" /\ reaperPc' = "sleep") =>
              (reaperPc = "loop" /\ processAsync /\ ~FlagCleared)
        /\ FlagCleared => (~processAsync /\ ~processAsync' /\ FlagCleared') ]_vars

\* the reaper has left its loop after finishing, with the flag already
\* cleared, the pass that resolved a write queued at that moment
C15_Witness ==
    /\ reaperPc = "exited"
    /\ dtorPc = "join"
    /\ lateResolved # {}

\* C16: from the reaper taking asyncMtx to its releasing it, the reaper
\* holds it without a break: no sendAsync appends, the queue changes only by
\* losing its front element, one for each write the reaper removes, and the
\* queue is empty when the reaper releases the lock.
C16_LockHeldForWholePass ==
    [][ asyncMtx = Reaper =>
          /\ reaperPc \in {"size", "wait", "check", "pop", "unlock", "aborted"}
          /\ \A c \in Callers : pc[c] # "sa_push" /\ pc'[c] # "sa_push"
          /\ appended' = appended
          /\ \/ respQueue' = respQueue /\ resolved' = resolved
             \/ /\ reaperPc = "pop"
                /\ respQueue # <<>>
                /\ respQueue' = Tail(respQueue)
                /\ resolved' = Append(resolved, Head(respQueue))
          /\ asyncMtx' # Reaper =>
                (reaperPc = "unlock" /\ asyncMtx' = Free /\ respQueue = <<>>) ]_vars

\* the reaper is about to release the lock after a pass that removed a write,
\* while a caller waits at the lock to append
C16_Witness ==
    /\ reaperPc = "unlock"
    /\ asyncMtx = Reaper
    /\ Len(resolved) >= 1
    /\ \E c \in Callers : pc[c] = "sa_lock"

C18_PayloadIntegrity ==
    \A c \in Callers :
       pc[c] = "sa_push" =>
          /\ IssuedRequest(c).url = endpointUrl \o WritePath
          /\ IssuedRequest(c).params = Params1("db", databaseName)
          /\ IssuedRequest(c).body = callId[c]

\* a thread of the first object is held at a lock by the reaper of the second
\* while that reaper waits for a request of the second object still in flight
HeldByOtherReaper ==
    /\ pc["c1"] = "sa_lock" \/ reaperPc = "lock"
    /\ asyncMtx = OtherReaper
    /\ other.reaperPc = "wait"
    /\ other.net[Front(other.respQueue)].st = "inflight"

\* the same with the objects exchanged
OtherHeldByReaper ==
    /\ other.pc = "sa_lock" \/ other.reaperPc = "lock"
    /\ asyncMtx = Reaper
    /\ reaperPc = "wait"
    /\ net[Front(respQueue)].st = "inflight"

\* C19: with two HTTP objects in the process, no sendAsync and no reaper pass
\* of one is ever held at its lock by the reaper of the other waiting for a
\* request of that other object.
C19_InstanceIsolation == ~HeldByOtherReaper /\ ~OtherHeldByReaper
====
